---------------------------- MODULE Spec2Model ----------------------------
(***************************************************************************)
(* Model of the hello-prisma example scripts (queries.ts,                  *)
(* example-queries.ts, the verification script, the advanced script) run   *)
(* against one User/Post database, and of the caching snippets of          *)
(* DATABASE_OPTIMIZATION.md.                                               *)
(***************************************************************************)
EXTENDS Integers, Sequences, FiniteSets, TLC

(***************************************************************************)
(* Bounds                                                                  *)
(***************************************************************************)
\* a rolled-back insert may consume a User id only while the next id is below this
MaxSkippedId == 2
\* the advanced script (one new 'Transaction Post' per run) starts only while
\* the next Post id is at most this
MaxPostId == 5
\* concurrent invocations of the cached getters
MaxCalls == 2
\* the cached getters are called with ids 1..MaxCacheId
MaxCacheId == 2
\* globalThis objects (processes, containers) that evaluate lib/prisma.ts
MaxRealms == 2
\* evaluations of lib/prisma.ts per globalThis (module reloads)
MaxEvals == 3

VARIABLES
  users,        \* User table: set of [id, email, name, createdAt]
  posts,        \* Post table: set of [id, title, published, authorId, createdAt]
  nextUserId,   \* autoincrement sequence of User.id
  nextPostId,   \* autoincrement sequence of Post.id
  clock,        \* now(): advanced by every inserting statement
  script,       \* the script being run ("none" before the first run)
  pc,           \* index in Program(script) of the next / current operation
  phase,        \* position in  main().catch(..).finally(..)
  inflight,     \* number of client operations issued and not yet settled
  issued,       \* number of client operations issued by this run
  failed,       \* some client operation of this run has raised
  disconnects,  \* number of prisma.$disconnect() calls of this run
  exitCode,     \* -1 while the process runs, then its exit status
  out,          \* what the run has printed (markers)
  err,          \* the error the failed operation raised ("none" if none)
  atStart,      \* the User and Post tables as they were when the run started
  locals,       \* the results the script keeps: updateResult.count, firstPage, cursorPage
  cache,        \* Redis: key -> entry
  calls,        \* invocations of getUser / getUserWithCache, by slot
  bg,           \* the background revalidation started by each invocation
  reads,        \* per user id: writes of the row since the reads whose stores count
  nodeEnv,          \* process.env.NODE_ENV of each globalThis
  globalForPrisma,  \* globalThis.prisma of each: 0 (undefined) or a client
  constructed,      \* number of  new PrismaClient()  calls under each globalThis
  exported          \* the  prisma  exported by each evaluation, in order

dbVars  == <<users, posts, nextUserId, nextPostId, clock>>
runVars == <<script, pc, phase, inflight, issued, failed, disconnects, exitCode, out, err,
             atStart, locals>>
cacheVars == <<cache, calls, bg, reads>>
libVars == <<nodeEnv, globalForPrisma, constructed, exported>>
vars    == <<users, posts, nextUserId, nextPostId, clock,
             script, pc, phase, inflight, issued, failed, disconnects, exitCode, out, err,
             atStart, locals,
             cache, calls, bg, reads,
             nodeEnv, globalForPrisma, constructed, exported>>

(***************************************************************************)
(* The database, as the schema declares it                                 *)
(***************************************************************************)
DB == [users |-> users, posts |-> posts, nextUserId |-> nextUserId,
       nextPostId |-> nextPostId, clock |-> clock]

Ok(db)        == [ok |-> TRUE,  db |-> db, code |-> "none"]
Err(db, code) == [ok |-> FALSE, db |-> db, code |-> code]

\* the errors a client operation raises
UniqueViolation    == "P2002"
ForeignKeyViolation == "P2003"
RecordNotFound     == "P2025"
Unavailable        == "P1001"

UsersByEmail(db, email) == {u \in db.users : u.email = email}
UsersById(db, id)       == {u \in db.users : u.id = id}

\* rows of a nested  posts: { create: [...] }  for the user with id uid
RECURSIVE NestedPosts(_, _, _, _)
NestedPosts(rows, uid, pid, now) ==
  IF rows = << >> THEN {}
  ELSE {[id |-> pid, title |-> Head(rows).title, published |-> Head(rows).published,
         authorId |-> uid, createdAt |-> now]}
       \cup NestedPosts(Tail(rows), uid, pid + 1, now)

\* variant: email without @unique
userCreateNotUnique(db, q) ==
  Ok([db EXCEPT
         !.users = @ \cup {[id |-> db.nextUserId, email |-> q.email,
                            name |-> q.name, createdAt |-> db.clock]},
         !.posts = @ \cup NestedPosts(q.posts, db.nextUserId, db.nextPostId, db.clock),
         !.nextUserId = @ + 1,
         !.nextPostId = @ + Len(q.posts),
         !.clock = @ + 1])

\* variant: the nested posts are not written
userCreateWithoutPosts(db, q) ==
  IF UsersByEmail(db, q.email) # {} THEN Err(db, UniqueViolation)
  ELSE Ok([db EXCEPT
         !.users = @ \cup {[id |-> db.nextUserId, email |-> q.email,
                            name |-> q.name, createdAt |-> db.clock]},
         !.nextUserId = @ + 1,
         !.clock = @ + 1])

\* email String @unique : a second row with the same email is refused
userCreate(db, q) ==
  IF UsersByEmail(db, q.email) # {} THEN Err(db, UniqueViolation)
  ELSE Ok([db EXCEPT
         !.users = @ \cup {[id |-> db.nextUserId, email |-> q.email,
                            name |-> q.name, createdAt |-> db.clock]},
         !.posts = @ \cup NestedPosts(q.posts, db.nextUserId, db.nextPostId, db.clock),
         !.nextUserId = @ + 1,
         !.nextPostId = @ + Len(q.posts),
         !.clock = @ + 1])

\* update of a unique row: raises when the row does not exist
userUpdate(db, q) ==
  IF UsersByEmail(db, q.email) = {} THEN Err(db, RecordNotFound)
  ELSE Ok([db EXCEPT !.users =
         {IF u.email = q.email THEN [u EXCEPT !.name = q.name] ELSE u : u \in @}])

\* variant: the relation is not enforced on delete
userDeleteUnchecked(db, q) ==
  IF UsersByEmail(db, q.email) = {} THEN Err(db, RecordNotFound)
  ELSE Ok([db EXCEPT !.users = @ \ UsersByEmail(db, q.email)])

\* variant: the relation is declared with onDelete: Cascade
userDeleteCascade(db, q) ==
  IF UsersByEmail(db, q.email) = {} THEN Err(db, RecordNotFound)
  ELSE Ok([db EXCEPT
         !.users = @ \ UsersByEmail(db, q.email),
         !.posts = {p \in @ : \A u \in UsersByEmail(db, q.email) : p.authorId # u.id}])

\* author User @relation(fields: [authorId], references: [id]) with no onDelete:
\* the delete of a user that still owns a post is refused
userDelete(db, q) ==
  IF UsersByEmail(db, q.email) = {} THEN Err(db, RecordNotFound)
  ELSE IF \E p \in db.posts : \E u \in UsersByEmail(db, q.email) : p.authorId = u.id
       THEN Err(db, ForeignKeyViolation)
       ELSE Ok([db EXCEPT !.users = @ \ UsersByEmail(db, q.email)])

\* variant: the update and create payloads are exchanged
userUpsertSwapped(db, q) ==
  IF UsersByEmail(db, q.email) # {}
  THEN userUpdate(db, [email |-> q.email, name |-> q.create])
  ELSE userCreate(db, [email |-> q.email, name |-> q.update, posts |-> << >>])

userUpsert(db, q) ==
  IF UsersByEmail(db, q.email) # {}
  THEN userUpdate(db, [email |-> q.email, name |-> q.update])
  ELSE userCreate(db, [email |-> q.email, name |-> q.create, posts |-> << >>])

\* variant: where and data are exchanged
postUpdateManySwapped(db, q) ==
  Ok([db EXCEPT !.posts =
        {IF p.published = q.data THEN [p EXCEPT !.published = q.where] ELSE p : p \in @}])

\* updateMany({ where: { published }, data: { published } })
postUpdateMany(db, q) ==
  Ok([db EXCEPT !.posts =
        {IF p.published = q.where THEN [p EXCEPT !.published = q.data] ELSE p : p \in @}])

\* authorId must reference an existing User.id
postCreate(db, q) ==
  IF UsersById(db, q.authorId) = {} THEN Err(db, ForeignKeyViolation)
  ELSE Ok([db EXCEPT
         !.posts = @ \cup {[id |-> db.nextPostId, title |-> q.title,
                            published |-> q.published, authorId |-> q.authorId,
                            createdAt |-> db.clock]},
         !.nextPostId = @ + 1,
         !.clock = @ + 1])

\* one statement of the client
Statement(db, q) ==
  CASE q.op = "user.create"     -> userCreate(db, q)
    [] q.op = "user.update"     -> userUpdate(db, q)
    [] q.op = "user.delete"     -> userDelete(db, q)
    [] q.op = "user.upsert"     -> userUpsert(db, q)
    [] q.op = "post.updateMany" -> postUpdateMany(db, q)
    [] q.op = "post.create"     -> postCreate(db, q)
    [] OTHER                    -> Ok(db)

\* prisma.$transaction([q1, q2, ...]): the statements run in order on top of
\* each other; the first one that raises rolls everything back
RECURSIVE RunAll(_, _)
RunAll(db, qs) ==
  IF qs = << >> THEN Ok(db)
  ELSE LET r == Statement(db, Head(qs))
       IN IF r.ok THEN RunAll(r.db, Tail(qs)) ELSE r

\* variant: the statements are sent one by one, nothing is rolled back
transactionNoRollback(db, q) == RunAll(db, q.queries)

transaction(db, q) ==
  LET r == RunAll(db, q.queries)
  IN IF r.ok THEN r ELSE Err(db, r.code)

Execute(db, q) ==
  IF q.op = "$transaction" THEN transaction(db, q) ELSE Statement(db, q)

PostById(db, id) == CHOOSE p \in db.posts : p.id = id

\* the rows a findMany with this cursor ranges over, under orderBy createdAt
\* desc: all rows, or the rows not newer than the cursor row
InRange(db, cursor) ==
  IF cursor = 0 THEN db.posts
  ELSE IF \A p \in db.posts : p.id # cursor THEN {}
       ELSE {p \in db.posts : p.createdAt <= PostById(db, cursor).createdAt}

Min(a, b) == IF a < b THEN a ELSE b

\* findMany({ take, cursor, orderBy: { createdAt: 'desc' } }): the ids of the
\* first  take  rows of the range, newest first; the order among rows with
\* the same createdAt is the database's choice
Pages(db, q) ==
  LET range == InRange(db, q.cursor)
      ids == {p.id : p \in range}
      n == Min(q.take, Cardinality(range))
  IN {pg \in [1..n -> ids] :
        /\ \A i \in 1..n : \A j \in 1..n : i < j =>
              /\ pg[i] # pg[j]
              /\ PostById(db, pg[i]).createdAt >= PostById(db, pg[j]).createdAt
        /\ \A p \in range : (\A i \in 1..n : pg[i] # p.id) =>
              \A i \in 1..n : PostById(db, pg[i]).createdAt >= p.createdAt}

\* the values an operation can resolve to, as far as the scripts use them
Returns(db, q) ==
  CASE q.op = "post.updateMany" ->
         {Cardinality({p \in db.posts : p.published = q.where})}
    [] q.op = "post.findMany" /\ "take" \in DOMAIN q -> Pages(db, q)
    [] OTHER -> {0}


(***************************************************************************)
(* The scripts: the client operations of each, in source order             *)
(***************************************************************************)
Read(op) == [op |-> op]

\* variant: the seed upserts alice instead of creating her
queriesUpsert ==
  << [op |-> "user.upsert", email |-> "alice@prisma.io", update |-> "Alice",
      create |-> "Alice"],
     [op |-> "user.create", email |-> "bob@prisma.io", name |-> "Bob",
      posts |-> << [title |-> "Bob's first post", published |-> TRUE] >>],
     Read("user.findMany"),
     Read("post.findMany") >>

queries ==
  << [op |-> "user.create", email |-> "alice@prisma.io", name |-> "Alice",
      posts |-> << [title |-> "My first post", published |-> TRUE],
                   [title |-> "Draft post", published |-> FALSE] >>],
     [op |-> "user.create", email |-> "bob@prisma.io", name |-> "Bob",
      posts |-> << [title |-> "Bob's first post", published |-> TRUE] >>],
     Read("user.findMany"),
     Read("post.findMany") >>

exampleQueries ==
  << [op |-> "user.create", email |-> "charlie@prisma.io", name |-> "Charlie",
      posts |-> << [title |-> "Charlie introduction", published |-> TRUE] >>],
     Read("user.findMany"),
     Read("user.findUnique"),
     Read("post.findMany"),
     [op |-> "user.update", email |-> "charlie@prisma.io", name |-> "Charles"],
     [op |-> "user.delete", email |-> "charlie@prisma.io"],
     Read("user.count"),
     Read("post.count"),
     Read("post.count") >>

verify ==
  << Read("$connect"),
     Read("user.count"),
     Read("post.count"),
     Read("user.findMany") >>

\* cursor: undefined
NoCursor == 0
\* cursor: { id: firstPage[0].id }, known once firstPage is
FirstOfFirstPage == -1

runAllExamples ==
  << Read("user.findMany"),
     Read("post.findMany"),
     Read("post.findMany"),
     [op |-> "post.findMany", take |-> 2, cursor |-> NoCursor],
     [op |-> "post.findMany", take |-> 2, cursor |-> FirstOfFirstPage],
     Read("user.findMany"),
     Read("user.findMany"),
     Read("user.count"),
     Read("post.count"),
     Read("post.count"),
     Read("user.findMany"),
     [op |-> "user.upsert", email |-> "upsert@example.com",
      update |-> "Updated Upsert User", create |-> "New Upsert User"],
     [op |-> "post.updateMany", where |-> FALSE, data |-> TRUE],
     [op |-> "$transaction", queries |->
        << [op |-> "user.update", email |-> "alice@prisma.io", name |-> "Alice Updated"],
           [op |-> "post.create", title |-> "Transaction Post", published |-> TRUE,
            authorId |-> 1] >>],
     Read("post.findMany"),
     Read("post.groupBy") >>

Scripts == {"queries", "example", "verify", "advanced"}

Program(s) ==
  CASE s = "queries"  -> queries
    [] s = "example"  -> exampleQueries
    [] s = "verify"   -> verify
    [] s = "advanced" -> runAllExamples
    [] OTHER          -> << >>

\* indices of the steps the claims speak about
FirstPageStep   == 4
CursorPageStep  == 5
DeleteStep      == 6
UpsertStep      == 12
UpdateManyStep  == 13
TransactionStep == 14

\* what the synchronous code after operation k prints once k has succeeded
Printed(s, k) ==
  CASE s = "queries"  /\ k = 2  -> {"Created users:"}
    [] s = "example"  /\ k = DeleteStep -> {"Deleted user successfully"}
    [] s = "example"  /\ k = 9  -> {"=== ALL EXAMPLES COMPLETE ==="}
    [] s = "verify"   /\ k = 4  -> {"=== ALL VERIFICATIONS PASSED"}
    [] s = "advanced" /\ k = TransactionStep ->
                          {"Transaction completed: User updated + Post created"}
    [] s = "advanced" /\ k = 16 -> {"=== ALL EXAMPLES COMPLETE ==="}
    [] OTHER -> {}

Banners == {"=== ALL EXAMPLES COMPLETE ===", "=== ALL VERIFICATIONS PASSED"}

NoLocals == [count |-> -1, firstPage |-> << >>, cursorPage |-> << >>]

\* variant: the cursor is the last record of the first page
BindLastOfFirstPage(q, l) ==
  IF q.op = "post.findMany" /\ "cursor" \in DOMAIN q /\ q.cursor = FirstOfFirstPage
  THEN [q EXCEPT !.cursor = IF Len(l.firstPage) > 0 THEN l.firstPage[Len(l.firstPage)]
                            ELSE NoCursor]
  ELSE q

\* the query as issued: the cursor of the second page is taken from firstPage
\*   cursor: firstPage.length > 0 ? { id: firstPage[0].id } : undefined
Bind(q, l) ==
  IF q.op = "post.findMany" /\ "cursor" \in DOMAIN q /\ q.cursor = FirstOfFirstPage
  THEN [q EXCEPT !.cursor = IF Len(l.firstPage) > 0 THEN l.firstPage[1] ELSE NoCursor]
  ELSE q

\* const updateResult / firstPage / cursorPage = await ...
Assign(s, k, l, v) ==
  CASE s = "advanced" /\ k = UpdateManyStep -> [l EXCEPT !.count = v]
    [] s = "advanced" /\ k = FirstPageStep  -> [l EXCEPT !.firstPage = v]
    [] s = "advanced" /\ k = CursorPageStep -> [l EXCEPT !.cursorPage = v]
    [] OTHER -> l

\* the operations of verify() that sit in a try { } catch { ...; return; }
CaughtLocally(s, k) == s = "verify" /\ k \in 1..3

\* the top-level .catch() handler ends the process: process.exit(1)
CatchExits(s) == s \in {"queries", "example"}


(***************************************************************************)
(* Values of the caching snippets: JavaScript values, JSON text, Redis      *)
(***************************************************************************)
CacheTtl == 3600

Calls    == 1..MaxCalls
CacheIds == 1..MaxCacheId

JsNull == [type |-> "null"]
\* the empty string: a string that holds no JSON text
JsEmptyString == [type |-> "string", text |-> [type |-> "nothing"]]

\* the object the client returns for a row: createdAt is a Date
ToJs(row) ==
  [type |-> "object", id |-> row.id, email |-> row.email, name |-> row.name,
   createdAt |-> [type |-> "Date", t |-> row.createdAt]]

\* prisma.user.findUnique({ where: { id } }): the row, or null
findUnique(db, id) ==
  IF UsersById(db, id) = {} THEN JsNull
  ELSE ToJs(CHOOSE u \in UsersById(db, id) : TRUE)

\* what JSON text can hold: a Date is written as its ISO string
ToJson(v) ==
  IF v.type = "object"
  THEN [v EXCEPT !.createdAt = [type |-> "string", t |-> v.createdAt.t]]
  ELSE v

\* JSON.stringify(v): a string, "null" for null
JSONstringify(v) == [type |-> "string", text |-> ToJson(v)]

\* JSON.parse(text): the value the text denotes (strings stay strings)
JSONparse(s) == s.text

\* `user:${id}`
Key(id) == <<"user", id>>
\* a key of the same Redis that is not a user key
OtherKey == <<"session", 1>>
CacheKeys == {Key(id) : id \in CacheIds} \cup {OtherKey}

NoEntry == [present |-> FALSE]
Entry(value, ttl) == [present |-> TRUE, value |-> value, ttl |-> ttl]

\* redis.get(key): the stored string, or null
redisGet(c, key) == IF c[key].present THEN c[key].value ELSE JsNull

\* variant: SET .. NX, an existing entry is kept
redisSetexIfAbsent(c, key, seconds, value) ==
  IF c[key].present THEN c ELSE [c EXCEPT ![key] = Entry(value, seconds)]

\* redis.setex(key, seconds, value)
redisSetex(c, key, seconds, value) == [c EXCEPT ![key] = Entry(value, seconds)]

\* variant: the text "null" of a cached missing user is taken for a miss
TruthyExceptNullText(v) == v # JsNull /\ v # JsEmptyString /\ v # JSONstringify(JsNull)

\* if (cached): null and the empty string are falsy
Truthy(v) == v # JsNull /\ v # JsEmptyString

\* variant: no revalidation is started on a hit
RevalidatesNever(fn) == FALSE

\* only getUserWithCache starts a background findUnique on a hit
Revalidates(fn) == fn = "getUserWithCache"

IdleCall ==
  [fn |-> "none", pc |-> "idle", id |-> 0, hit |-> FALSE, cached |-> JsNull,
   user |-> JsNull, result |-> JsNull, finds |-> 0, writes |-> {}]
NoRevalidation == [stage |-> "none", id |-> 0, user |-> JsNull]

\* history of the reads of user id made to refresh user:<id>
\*   rev: "none" before the first background read, then "clean" until the row
\*        is written, "dirty" from then on
\*   all: "clean" when no write followed the earliest read (background or
\*        after a miss) of the current run of overlapping reads-and-stores,
\*        "dirty" when one did, "none" when the row was written after them
NoReads == [rev |-> "none", all |-> "none"]
\* the history is kept in SpecSwr only
Unrecorded == [rev |-> "off", all |-> "off"]

CacheIdle ==
  /\ cache = [k \in CacheKeys |-> NoEntry]
  /\ calls = [c \in Calls |-> IdleCall]
  /\ bg = [c \in Calls |-> NoRevalidation]
  /\ reads = [id \in CacheIds |-> Unrecorded]

\* a findUnique of user id has resolved and its redis.setex has not yet
StorePending(id) ==
  \E c \in Calls : \/ (calls[c].pc = "setex" /\ calls[c].id = id)
                   \/ (bg[c].stage = "setex" /\ bg[c].id = id)

\* the history after findUnique of user id resolves
ReadBy(id, background) ==
  IF reads[id] = Unrecorded THEN reads
  ELSE
  [reads EXCEPT ![id] =
     [rev |-> IF background /\ @.rev = "none" THEN "clean" ELSE @.rev,
      all |-> IF StorePending(id) THEN @.all ELSE "clean"]]

\* the history after the row of user id is written
Written(id) ==
  IF reads[id] = Unrecorded THEN reads
  ELSE
  [reads EXCEPT ![id] =
     [rev |-> IF @.rev = "none" THEN "none" ELSE "dirty",
      all |-> IF StorePending(id) THEN "dirty" ELSE "none"]]

(***************************************************************************)
(* lib/prisma.ts, the client singleton of the serverless snippet            *)
(***************************************************************************)
Realms == 1..MaxRealms
Envs == {"production", "development", "test", "undefined"}
\* globalForPrisma.prisma before any assignment
Undefined == 0

LibIdle ==
  /\ globalForPrisma = [r \in Realms |-> Undefined]
  /\ constructed = [r \in Realms |-> 0]
  /\ exported = [r \in Realms |-> << >>]

(***************************************************************************)
(* One run of a script:  main().catch(..).finally(() => prisma.$disconnect()) *)
(***************************************************************************)
Phases == {"idle", "ready", "awaiting", "rejected", "settled", "disconnecting", "exited"}

Init ==
  /\ users = {} /\ posts = {} /\ nextUserId = 1 /\ nextPostId = 1 /\ clock = 1
  /\ script = "none" /\ pc = 1 /\ phase = "idle"
  /\ inflight = 0 /\ issued = 0 /\ failed = FALSE /\ disconnects = 0
  /\ exitCode = -1 /\ out = {} /\ err = "none"
  /\ atStart = [users |-> {}, posts |-> {}] /\ locals = NoLocals
  /\ CacheIdle
  /\ nodeEnv = [r \in Realms |-> "development"] /\ LibIdle

SetDB(db) ==
  /\ users' = db.users /\ posts' = db.posts
  /\ nextUserId' = db.nextUserId /\ nextPostId' = db.nextPostId /\ clock' = db.clock

\* variant: the first call of a script is fired without await
SuspendsExceptFirst(s, k) == k # 1

\* every client call of the scripts is under  await : the caller is suspended
\* until the operation settles
Suspends(s, k) == TRUE

\* variant: the catch blocks of verify() lack their  return  and fall through
AfterFailureFallThrough(s, k) == IF CaughtLocally(s, k) THEN "ready" ELSE "rejected"

\* where control goes when operation k raises: the try/catch blocks of verify()
\* print and return (main resolves); everywhere else main() rejects
AfterFailure(s, k) == IF CaughtLocally(s, k) THEN "settled" ELSE "rejected"

\* a new process is started:  npx tsx <script>
StartRun(s) ==
  /\ phase \in {"idle", "exited"}
  /\ s = "advanced" => nextPostId <= MaxPostId
  /\ script' = s /\ pc' = 1 /\ phase' = "ready"
  /\ inflight' = 0 /\ issued' = 0 /\ failed' = FALSE /\ disconnects' = 0
  /\ exitCode' = -1 /\ out' = {} /\ err' = "none"
  /\ atStart' = [users |-> users, posts |-> posts] /\ locals' = NoLocals
  /\ UNCHANGED dbVars
  /\ UNCHANGED cacheVars
  /\ UNCHANGED libVars

\* main() reaches its next client call
Issue ==
  /\ phase = "ready"
  /\ pc <= Len(Program(script))
  /\ inflight' = inflight + 1
  /\ issued' = issued + 1
  /\ phase' = IF Suspends(script, pc) THEN "awaiting" ELSE "ready"
  /\ UNCHANGED <<dbVars, script, pc, failed, disconnects, exitCode, out, err, atStart, locals>>
  /\ UNCHANGED cacheVars
  /\ UNCHANGED libVars

\* the operation in flight is carried out and its promise resolves; the
\* synchronous code up to the next await (or the end of main) runs
Succeed ==
  /\ phase = "awaiting"
  /\ LET q == Bind(Program(script)[pc], locals)
         r == Execute(DB, q)
     IN /\ r.ok
        /\ SetDB(r.db)
        /\ \E v \in Returns(DB, q) : locals' = Assign(script, pc, locals, v)
  /\ inflight' = inflight - 1
  /\ out' = out \cup Printed(script, pc)
  /\ pc' = pc + 1
  /\ phase' = IF pc = Len(Program(script)) THEN "settled" ELSE "ready"
  /\ UNCHANGED <<script, issued, failed, disconnects, exitCode, err, atStart>>
  /\ UNCHANGED cacheVars
  /\ UNCHANGED libVars

\* the operation in flight raises: a constraint of the schema refuses it (the
\* database is left as the refused operation leaves it), or the database
\* cannot be reached (nothing is written).  An insert that did not go through
\* may still have consumed a value of the id sequence.
Fail ==
  /\ phase = "awaiting"
  /\ LET q == Bind(Program(script)[pc], locals)
         r == Execute(DB, q)
     IN /\ \/ /\ ~r.ok
              /\ err' = r.code
              /\ users' = r.db.users /\ posts' = r.db.posts
              /\ nextPostId' = r.db.nextPostId /\ clock' = r.db.clock
           \/ /\ err' = Unavailable
              /\ UNCHANGED <<users, posts, nextPostId, clock>>
        /\ \/ UNCHANGED nextUserId
           \/ /\ q.op = "user.create"
              /\ nextUserId < MaxSkippedId
              /\ nextUserId' = nextUserId + 1
  /\ inflight' = inflight - 1
  /\ failed' = TRUE
  /\ out' = IF CaughtLocally(script, pc) THEN out \cup {"error"} ELSE out
  /\ phase' = AfterFailure(script, pc)
  /\ pc' = IF AfterFailure(script, pc) = "ready" THEN pc + 1 ELSE pc
  /\ UNCHANGED <<script, issued, disconnects, exitCode, atStart, locals>>
  /\ UNCHANGED cacheVars
  /\ UNCHANGED libVars

\* variant: the handler also clears the tables before leaving
CatchCleanup ==
  /\ phase = "rejected"
  /\ out' = out \cup {"error"}
  /\ users' = {} /\ posts' = {}
  /\ IF CatchExits(script)
     THEN phase' = "exited" /\ exitCode' = 1
     ELSE phase' = "settled" /\ UNCHANGED exitCode
  /\ UNCHANGED <<nextUserId, nextPostId, clock, script, pc, inflight, issued, failed,
                 disconnects, err, atStart, locals>>
  /\ UNCHANGED cacheVars
  /\ UNCHANGED libVars

\* the top-level .catch() handler: print the error; queries.ts and
\* example-queries.ts then call process.exit(1)
Catch ==
  /\ phase = "rejected"
  /\ out' = out \cup {"error"}
  /\ IF CatchExits(script)
     THEN phase' = "exited" /\ exitCode' = 1
     ELSE phase' = "settled" /\ UNCHANGED exitCode
  /\ UNCHANGED <<dbVars, script, pc, inflight, issued, failed, disconnects, err, atStart, locals>>
  /\ UNCHANGED cacheVars
  /\ UNCHANGED libVars

\* the .finally() handler calls prisma.$disconnect()
Finally ==
  /\ phase = "settled"
  /\ disconnects' = disconnects + 1
  /\ phase' = "disconnecting"
  /\ UNCHANGED <<dbVars, script, pc, inflight, issued, failed, exitCode, out, err, atStart, locals>>
  /\ UNCHANGED cacheVars
  /\ UNCHANGED libVars

\* $disconnect() resolves, nothing is left to run and the process ends
Disconnected ==
  /\ phase = "disconnecting"
  /\ phase' = "exited"
  /\ exitCode' = 0
  /\ UNCHANGED <<dbVars, script, pc, inflight, issued, failed, disconnects, out, err, atStart, locals>>
  /\ UNCHANGED cacheVars
  /\ UNCHANGED libVars

Next ==
  \/ \E s \in Scripts : StartRun(s)
  \/ Issue
  \/ Succeed
  \/ Fail
  \/ Catch
  \/ Finally
  \/ Disconnected

Spec == Init /\ [][Next]_vars

TypeOK ==
  /\ phase \in Phases
  /\ script \in Scripts \cup {"none"}
  /\ inflight \in 0..1
  /\ exitCode \in {-1, 0, 1}


(***************************************************************************)
(* The cached getters of DATABASE_OPTIMIZATION.md, called concurrently      *)
(* while another client updates the users                                  *)
(***************************************************************************)
Names == {"Alice", "Jane Doe"}

InitCache ==
  /\ users = {[id |-> 1, email |-> "alice@prisma.io", name |-> "Alice", createdAt |-> 1]}
  /\ posts = {} /\ nextUserId = 2 /\ nextPostId = 1 /\ clock = 2
  /\ script = "none" /\ pc = 1 /\ phase = "idle"
  /\ inflight = 0 /\ issued = 0 /\ failed = FALSE /\ disconnects = 0
  /\ exitCode = -1 /\ out = {} /\ err = "none"
  /\ atStart = [users |-> {}, posts |-> {}] /\ locals = NoLocals
  /\ CacheIdle
  /\ nodeEnv = [r \in Realms |-> "development"] /\ LibIdle

\* a slot is free once its invocation has returned and its revalidation, if
\* any, has been stored
Free(c) == calls[c].pc \in {"idle", "done"} /\ bg[c].stage \in {"none", "done"}

\* getUser(id) / getUserWithCache(id) is called: redis.get is issued (the
\* invocation takes the first free slot)
Invoke(c, fn, id) ==
  /\ Free(c)
  /\ \A d \in Calls : d < c => ~Free(d)
  /\ calls' = [calls EXCEPT ![c] = [IdleCall EXCEPT !.fn = fn, !.pc = "get", !.id = id]]
  /\ bg' = [bg EXCEPT ![c] = NoRevalidation]
  /\ UNCHANGED <<dbVars, runVars, cache, reads>>
  /\ UNCHANGED libVars

\* redis.get resolves.  On a hit the parsed value is returned (getUserWithCache
\* first fires findUnique(..).then(..) without awaiting it); on a miss
\* findUnique is issued and awaited
Lookup(c) ==
  /\ calls[c].pc = "get"
  /\ LET call == calls[c]
         cached == redisGet(cache, Key(call.id))
         seen == [call EXCEPT !.cached = cached, !.hit = cache[Key(call.id)].present]
     IN IF Truthy(cached)
        THEN /\ calls' = [calls EXCEPT ![c] =
                   [seen EXCEPT !.result = JSONparse(cached), !.pc = "done",
                                !.finds = IF Revalidates(call.fn) THEN 1 ELSE 0]]
             /\ bg' = IF Revalidates(call.fn)
                      THEN [bg EXCEPT ![c] = [stage |-> "find", id |-> call.id, user |-> JsNull]]
                      ELSE bg
        ELSE /\ calls' = [calls EXCEPT ![c] = [seen EXCEPT !.pc = "find", !.finds = 1]]
             /\ UNCHANGED bg
  /\ UNCHANGED <<dbVars, runVars, cache, reads>>
  /\ UNCHANGED libVars

\* the awaited findUnique resolves; redis.setex is issued
FindUnique(c) ==
  /\ calls[c].pc = "find"
  /\ calls' = [calls EXCEPT ![c].user = findUnique(DB, calls[c].id), ![c].pc = "setex"]
  /\ reads' = ReadBy(calls[c].id, FALSE)
  /\ UNCHANGED <<dbVars, runVars, cache, bg>>
  /\ UNCHANGED libVars

\* the awaited redis.setex resolves; the database result is returned
Setex(c) ==
  /\ calls[c].pc = "setex"
  /\ LET call == calls[c]
         text == JSONstringify(call.user)
     IN /\ cache' = redisSetex(cache, Key(call.id), CacheTtl, text)
        /\ calls' = [calls EXCEPT ![c].result = call.user, ![c].pc = "done",
                        ![c].writes = @ \cup {[key |-> Key(call.id), seconds |-> CacheTtl,
                                               value |-> text]}]
  /\ UNCHANGED <<dbVars, runVars, bg, reads>>
  /\ UNCHANGED libVars

\* the background findUnique resolves; its .then callback issues redis.setex
Revalidated(c) ==
  /\ bg[c].stage = "find"
  /\ bg' = [bg EXCEPT ![c].user = findUnique(DB, bg[c].id), ![c].stage = "setex"]
  /\ reads' = ReadBy(bg[c].id, TRUE)
  /\ UNCHANGED <<dbVars, runVars, cache, calls>>
  /\ UNCHANGED libVars

\* the redis.setex of a revalidation is carried out
RevalidationStored(c) ==
  /\ bg[c].stage = "setex"
  /\ cache' = redisSetex(cache, Key(bg[c].id), CacheTtl, JSONstringify(bg[c].user))
  /\ bg' = [bg EXCEPT ![c].stage = "done"]
  /\ UNCHANGED <<dbVars, runVars, calls, reads>>
  /\ UNCHANGED libVars

\* the expiry of an entry elapses
Expire(k) ==
  /\ cache[k].present
  /\ cache' = [cache EXCEPT ![k] = NoEntry]
  /\ UNCHANGED <<dbVars, runVars, calls, bg, reads>>
  /\ UNCHANGED libVars

\* another client writes the row:  prisma.user.update({ where: { id }, data: { name } })
UpdateUser(id, name) ==
  /\ \E u \in UsersById(DB, id) : u.name # name
  /\ users' = {IF u.id = id THEN [u EXCEPT !.name = name] ELSE u : u \in users}
  /\ reads' = Written(id)
  /\ UNCHANGED <<posts, nextUserId, nextPostId, clock, runVars, cache, calls, bg>>
  /\ UNCHANGED libVars

NextCache ==
  \/ \E c \in Calls : \E fn \in {"getUser", "getUserWithCache"} : \E id \in CacheIds :
        Invoke(c, fn, id)
  \/ \E c \in Calls : Lookup(c)
  \/ \E c \in Calls : FindUnique(c)
  \/ \E c \in Calls : Setex(c)
  \/ \E c \in Calls : Revalidated(c)
  \/ \E c \in Calls : RevalidationStored(c)
  \/ \E k \in CacheKeys : Expire(k)
  \/ \E id \in CacheIds : \E name \in Names : UpdateUser(id, name)

SpecCache == InitCache /\ [][NextCache]_vars

\* the same system when every caller uses getUserWithCache
NextSwr ==
  \/ \E c \in Calls : \E id \in CacheIds : Invoke(c, "getUserWithCache", id)
  \/ \E c \in Calls : Lookup(c)
  \/ \E c \in Calls : FindUnique(c)
  \/ \E c \in Calls : Setex(c)
  \/ \E c \in Calls : Revalidated(c)
  \/ \E c \in Calls : RevalidationStored(c)
  \/ \E k \in CacheKeys : Expire(k)
  \/ \E id \in CacheIds : \E name \in Names : UpdateUser(id, name)

\* the same, with the history of the reads recorded
InitSwr ==
  /\ users = {[id |-> 1, email |-> "alice@prisma.io", name |-> "Alice", createdAt |-> 1]}
  /\ posts = {} /\ nextUserId = 2 /\ nextPostId = 1 /\ clock = 2
  /\ script = "none" /\ pc = 1 /\ phase = "idle"
  /\ inflight = 0 /\ issued = 0 /\ failed = FALSE /\ disconnects = 0
  /\ exitCode = -1 /\ out = {} /\ err = "none"
  /\ atStart = [users |-> {}, posts |-> {}] /\ locals = NoLocals
  /\ cache = [k \in CacheKeys |-> NoEntry]
  /\ calls = [c \in Calls |-> IdleCall]
  /\ bg = [c \in Calls |-> NoRevalidation]
  /\ reads = [id \in CacheIds |-> NoReads]
  /\ nodeEnv = [r \in Realms |-> "development"] /\ LibIdle

SpecSwr == InitSwr /\ [][NextSwr]_vars

\* the database answers the background findUnique, the event loop runs its
\* .then callback, and Redis carries out the setex the callback issues
SpecSwrFair ==
  /\ InitCache /\ [][NextSwr]_vars
  /\ \A c \in Calls : WF_vars(Revalidated(c)) /\ WF_vars(RevalidationStored(c))

(***************************************************************************)
(* Evaluations of lib/prisma.ts (each import after a module reload)         *)
(***************************************************************************)
InitSingleton ==
  /\ users = {} /\ posts = {} /\ nextUserId = 1 /\ nextPostId = 1 /\ clock = 1
  /\ script = "none" /\ pc = 1 /\ phase = "idle"
  /\ inflight = 0 /\ issued = 0 /\ failed = FALSE /\ disconnects = 0
  /\ exitCode = -1 /\ out = {} /\ err = "none"
  /\ atStart = [users |-> {}, posts |-> {}] /\ locals = NoLocals
  /\ CacheIdle
  /\ nodeEnv \in [Realms -> Envs] /\ LibIdle

\* variant: the test of NODE_ENV is inverted
StoresGlobalInProduction(env) == env = "production"

\* if (process.env.NODE_ENV !== 'production') globalForPrisma.prisma = prisma
StoresGlobal(env) == env # "production"

\* one evaluation of the module under globalThis r:
\*   export const prisma = globalForPrisma.prisma ?? new PrismaClient(..)
\*   if (..) globalForPrisma.prisma = prisma
Evaluate(r) ==
  /\ Len(exported[r]) < MaxEvals
  /\ LET isNew == globalForPrisma[r] = Undefined
         prisma == IF isNew THEN constructed[r] + 1 ELSE globalForPrisma[r]
     IN /\ constructed' = [constructed EXCEPT ![r] = IF isNew THEN @ + 1 ELSE @]
        /\ exported' = [exported EXCEPT ![r] = Append(@, prisma)]
        /\ globalForPrisma' = [globalForPrisma EXCEPT ![r] =
                                 IF StoresGlobal(nodeEnv[r]) THEN prisma ELSE @]
  /\ UNCHANGED <<dbVars, runVars, cacheVars, nodeEnv>>

NextSingleton == \E r \in Realms : Evaluate(r)

SpecSingleton == InitSingleton /\ [][NextSingleton]_vars

(***************************************************************************)
(* Properties                                                              *)
(***************************************************************************)
Op == Program(script)[pc]
\* this step settles the operation in flight
Settles == phase = "awaiting" /\ phase' # "awaiting"
\* this step issues a client operation
Issues == issued' = issued + 1
\* this step belongs to the run in progress (it does not start a new process)
SameRun == phase # "exited" /\ phase # "idle"

\* C1: in every script and on every terminating path $disconnect() is invoked
\* exactly once before the process ends, and no operation is issued after it.
C1_DisconnectOnceOnEveryPath ==
  /\ [](phase = "exited" => disconnects = 1)
  /\ [][(SameRun /\ disconnects > 0) => issued' = issued]_vars

\* C2: whenever a client operation has raised, the error is printed and the
\* process ends with a non-zero exit status.
C2_FailureExitsNonZero ==
  (phase = "exited" /\ failed) => ("error" \in out /\ exitCode # 0)

\* C3: operations are issued one at a time in source order: never more than
\* one in flight (none once main() is over), and an operation is issued only
\* when nothing is in flight,
\* nothing has failed, and it is the next one of the program after those
\* already issued.
C3_OneAtATimeInOrder ==
  /\ [](inflight <= 1)
  /\ [](phase \in {"settled", "disconnecting", "exited"} => inflight = 0)
  /\ [][Issues => (inflight = 0 /\ ~failed /\ pc = issued + 1 /\ pc' = pc)]_vars

C3_Witness == script = "queries" /\ issued = 2 /\ inflight = 1 /\ pc = 2

\* C4: once an operation of a run has failed, the run issues no further
\* operation, moves to no further step, and never prints its success banner.
C4_NoRecoveryAfterFailure ==
  /\ [](failed => out \cap Banners = {})
  /\ [][(failed /\ failed') => (issued' = issued /\ pc' = pc)]_vars

C4_Witness ==
  /\ failed /\ phase = "exited" /\ script = "verify"
  /\ pc = 2 /\ issued = 2 /\ disconnects = 1

\* C5: no two User rows have the same email; a create whose email already
\* exists fails and leaves the table alone, and the upsert adds no second row.
UniqueEmail(U) == \A u \in U : \A v \in U : u.email = v.email => u = v

C5_EmailUnique ==
  /\ [](UniqueEmail(users))
  /\ [][(Settles /\ Op.op = "user.create" /\ UsersByEmail(DB, Op.email) # {})
          => (failed' /\ users' = users /\ posts' = posts)]_vars
  /\ [][(Settles /\ Op.op = "user.upsert" /\ UsersByEmail(DB, Op.email) # {})
          => Cardinality(users') = Cardinality(users)]_vars

C5_Witness ==
  /\ script = "queries" /\ pc = 1 /\ failed /\ err = UniqueViolation
  /\ \E u \in users : u.email = "upsert@example.com" /\ u.name = "Updated Upsert User"

\* C6: every Post's authorId refers to an existing User row.
C6_AuthorExists ==
  \A p \in posts : \E u \in users : u.id = p.authorId

C6_Witness ==
  /\ script = "example" /\ pc = DeleteStep /\ failed /\ err = ForeignKeyViolation
  /\ \E p \in posts : p.title = "Transaction Post" /\ p.authorId = 1
  /\ \E p \in posts : p.title = "Charlie introduction"

\* C7: the $transaction step is all-or-nothing: it either renames alice and
\* adds one 'Transaction Post' of author 1, or changes nothing; the completion
\* message is printed exactly in the former case; without a user alice or
\* without a user 1 nothing is written.
TxnMessage == "Transaction completed: User updated + Post created"
TxnStep == script = "advanced" /\ pc = TransactionStep /\ Settles
Renamed(U) ==
  {IF u.email = "alice@prisma.io" THEN [u EXCEPT !.name = "Alice Updated"] ELSE u : u \in U}
TxnBoth ==
  /\ UsersByEmail(DB, "alice@prisma.io") # {}
  /\ users' = Renamed(users)
  /\ posts \subseteq posts'
  /\ Cardinality(posts' \ posts) = 1
  /\ \A p \in posts' \ posts :
        p.title = "Transaction Post" /\ p.authorId = 1 /\ p.published
TxnNeither == users' = users /\ posts' = posts

C7_TransactionAllOrNothing ==
  [][TxnStep =>
       /\ TxnBoth \/ TxnNeither
       /\ (TxnMessage \in out') <=> TxnBoth
       /\ (UsersByEmail(DB, "alice@prisma.io") = {} \/ UsersById(DB, 1) = {})
             => TxnNeither]_vars

C7_Witness ==
  /\ script = "advanced" /\ pc = TransactionStep /\ failed
  /\ err = ForeignKeyViolation
  /\ \E u \in users : u.email = "alice@prisma.io" /\ u.name = "Alice"

\* C8: a successful upsert step leaves exactly one upsert@example.com user,
\* named 'New Upsert User' if none existed before (one row added) and
\* 'Updated Upsert User' if one did (no row added); the row, once there, stays.
UpsertEmail == "upsert@example.com"
UpsertSucceeds ==
  script = "advanced" /\ pc = UpsertStep /\ phase = "awaiting" /\ phase' = "ready"
Upserted(U) == {u \in U : u.email = UpsertEmail}

C8_Upsert ==
  /\ [][UpsertSucceeds =>
          /\ Cardinality(Upserted(users')) = 1
          /\ Upserted(users) = {} =>
               /\ \A u \in Upserted(users') : u.name = "New Upsert User"
               /\ Cardinality(users') = Cardinality(users) + 1
          /\ Upserted(users) # {} =>
               /\ \A u \in Upserted(users') : u.name = "Updated Upsert User"
               /\ Cardinality(users') = Cardinality(users)]_vars
  /\ [][Upserted(users) # {} => Upserted(users') # {}]_vars

C8_Witness ==
  /\ script = "advanced" /\ pc = UpsertStep + 1
  /\ \E u \in users : u.email = UpsertEmail /\ u.name = "Updated Upsert User"


\* the one store a miss performs
Store(call) ==
  {[key |-> Key(call.id), seconds |-> CacheTtl, value |-> JSONstringify(call.user)]}

\* C9: getUser(id) on a hit returns the parsed cached value and queries
\* nothing; on a miss it issues one findUnique, stores the JSON of the result
\* under user:<id> for 3600 seconds and returns the result; it writes no other
\* key and starts nothing in the background.
C9_CacheAside ==
  /\ cache[OtherKey] = NoEntry
  /\ \A c \in Calls : calls[c].fn = "getUser" =>
       /\ bg[c].stage = "none"
       /\ \A w \in calls[c].writes : w.key = Key(calls[c].id)
       /\ calls[c].pc = "done" =>
            IF calls[c].hit
            THEN /\ calls[c].result = JSONparse(calls[c].cached)
                 /\ calls[c].finds = 0
                 /\ calls[c].writes = {}
            ELSE /\ calls[c].finds = 1
                 /\ calls[c].writes = Store(calls[c])
                 /\ calls[c].result = calls[c].user

C9_Witness ==
  \E c \in Calls : \E d \in Calls :
    /\ calls[c].fn = "getUser" /\ calls[c].pc = "done" /\ calls[c].hit
    /\ calls[c].cached = JSONstringify(JsNull)
    /\ calls[d].fn = "getUser" /\ calls[d].pc = "done" /\ ~calls[d].hit
    /\ calls[d].result # JsNull

\* C10: getUserWithCache(id) on a hit returns the value cached at the time of
\* the lookup while its single background findUnique is still outstanding;
\* that revalidation reads the row and then overwrites user:<id> with it; on
\* a miss the function behaves like getUser.
SwrDone(c) == calls[c].fn = "getUserWithCache" /\ calls[c].pc = "done"

C10_StaleWhileRevalidate ==
  /\ [](\A c \in Calls : SwrDone(c) =>
          IF calls[c].hit
          THEN /\ calls[c].result = JSONparse(calls[c].cached)
               /\ calls[c].finds = 1
               /\ calls[c].writes = {}
               /\ bg[c].stage # "none" /\ bg[c].id = calls[c].id
          ELSE /\ calls[c].finds = 1
               /\ calls[c].writes = Store(calls[c])
               /\ calls[c].result = calls[c].user
               /\ bg[c].stage = "none")
  /\ [][\A c \in Calls :
          (calls[c].fn = "getUserWithCache" /\ calls[c].pc = "get" /\ calls'[c].pc = "done")
             => /\ calls'[c].cached = redisGet(cache, Key(calls[c].id))
                /\ bg'[c].stage = "find"]_vars
  /\ [][\A c \in Calls :
          /\ (bg[c].stage = "find" /\ bg'[c].stage # "find")
                => (bg'[c].stage = "setex" /\ bg'[c].user = findUnique(DB, bg[c].id))
          /\ (bg[c].stage = "setex" /\ bg'[c].stage # "setex")
                => /\ bg'[c].stage = "done"
                   /\ cache'[Key(bg[c].id)] = Entry(JSONstringify(bg[c].user), CacheTtl)]_vars
  /\ \A c \in Calls : (bg[c].stage = "find") ~> (bg[c].stage = "done")

C10_Witness ==
  \E c \in Calls :
    /\ SwrDone(c) /\ calls[c].hit /\ bg[c].stage = "done"
    /\ cache[Key(calls[c].id)].present
    /\ JSONparse(cache[Key(calls[c].id)].value) # calls[c].result

\* C11: outside production, the evaluations under one globalThis construct
\* at most one client and all export it; in production globalForPrisma.prisma
\* is never assigned and every evaluation constructs a client of its own.
C11_Singleton ==
  \A r \in Realms :
    LET n == Len(exported[r])
    IN IF nodeEnv[r] # "production"
       THEN /\ constructed[r] <= 1
            /\ \A i \in 1..n : \A j \in 1..n : exported[r][i] = exported[r][j]
       ELSE /\ globalForPrisma[r] = Undefined
            /\ constructed[r] = n
            /\ \A i \in 1..n : \A j \in 1..n : i # j => exported[r][i] # exported[r][j]

C11_Witness ==
  \E r \in Realms : \E q \in Realms :
    /\ nodeEnv[r] = "development" /\ Len(exported[r]) >= 2
    /\ nodeEnv[q] = "production" /\ Len(exported[q]) >= 2

Alice == "alice@prisma.io"
Bob == "bob@prisma.io"
Charlie == "charlie@prisma.io"
PostsOf(P, U, email) == {p \in P : \E u \in U : u.email = email /\ u.id = p.authorId}
AllPublished(P) == \A p \in P : p.published

\* C12: nothing is rolled back when a step fails: the failing step and every
\* later step of the run leave both tables as the earlier steps left them
\* (alice and her two posts stay when creating bob fails; the upserted user
\* and the published flags stay when the $transaction fails).
C12_NoRollback ==
  /\ [][((Settles /\ failed') \/ (failed /\ failed'))
          => (users' = users /\ posts' = posts)]_vars
  /\ []((script = "queries" /\ failed /\ pc = 2) =>
          /\ UsersByEmail(DB, Alice) # {}
          /\ Cardinality(PostsOf(posts, users, Alice) \ atStart.posts) = 2)
  /\ []((script = "advanced" /\ failed /\ pc = TransactionStep) =>
          /\ Upserted(users) # {}
          /\ AllPublished(posts))

C12_Witness ==
  /\ script = "advanced" /\ failed /\ pc = TransactionStep /\ phase = "exited"
  /\ err = ForeignKeyViolation
  /\ locals.count > 0
  /\ Upserted(users) # {} /\ Upserted(atStart.users) = {}

\* C13: a run of queries.ts that has printed 'Created users:' has added
\* exactly the users alice and bob and three posts (two of alice, one
\* published and one draft; one published of bob) and changed no earlier row;
\* every user.create writes the user with all its nested posts, or nothing.
C13_SeedAddsTwoUsersThreePosts ==
  /\ []((script = "queries" /\ "Created users:" \in out) =>
          LET newU == users \ atStart.users
              newP == posts \ atStart.posts
              ofAlice == PostsOf(newP, newU, Alice)
              ofBob == PostsOf(newP, newU, Bob)
          IN /\ atStart.users \subseteq users /\ atStart.posts \subseteq posts
             /\ Cardinality(newU) = 2 /\ {u.email : u \in newU} = {Alice, Bob}
             /\ Cardinality(newP) = 3 /\ newP = ofAlice \cup ofBob
             /\ Cardinality(ofAlice) = 2
             /\ Cardinality({p \in ofAlice : p.published}) = 1
             /\ Cardinality(ofBob) = 1 /\ AllPublished(ofBob))
  /\ [][(Settles /\ Op.op = "user.create") =>
          \/ users' = users /\ posts' = posts
          \/ \E u \in users' \ users :
                /\ users' = users \cup {u} /\ posts \subseteq posts'
                /\ Cardinality(posts' \ posts) = Len(Op.posts)
                /\ \A p \in posts' \ posts : p.authorId = u.id]_vars

C13_Witness ==
  /\ script = "queries" /\ "Created users:" \in out /\ phase = "exited"
  /\ atStart.users # {} /\ atStart.posts # {}

\* C14: a successful updateMany step leaves no unpublished post and its count
\* is the number of posts that were unpublished before it; once the advanced
\* script has printed its final banner every post is published.
UpdateManySucceeds ==
  script = "advanced" /\ pc = UpdateManyStep /\ phase = "awaiting" /\ phase' = "ready"

C14_UpdateManyPublishesAll ==
  /\ [][UpdateManySucceeds =>
          /\ AllPublished(posts')
          /\ locals'.count = Cardinality({p \in posts : ~p.published})]_vars
  /\ []((script = "advanced" /\ "=== ALL EXAMPLES COMPLETE ===" \in out)
          => AllPublished(posts))

C14_Witness ==
  /\ script = "advanced" /\ "=== ALL EXAMPLES COMPLETE ===" \in out
  /\ locals.count = 1
  /\ \E p \in posts : p.title = "Draft post" /\ p.published

\* C15: when alice@prisma.io exists at the start of a run of queries.ts, the
\* run never gets past its first create: that create fails (with the
\* uniqueness error whenever the database answers it), no row is added or
\* changed, and no later operation is issued.
C15_SeedNotRerunnable ==
  (script = "queries" /\ UsersByEmail(atStart, Alice) # {}) =>
     /\ pc = 1 /\ issued <= 1
     /\ users = atStart.users /\ posts = atStart.posts
     /\ phase \in {"rejected", "exited"} => failed
     /\ phase \notin {"ready", "awaiting", "rejected", "exited"} => FALSE
     /\ (failed /\ err # Unavailable) => err = UniqueViolation

C15_Witness ==
  /\ script = "queries" /\ UsersByEmail(atStart, Alice) # {}
  /\ phase = "exited" /\ failed /\ err = UniqueViolation /\ exitCode = 1
  /\ UsersByEmail(DB, Bob) # {}

ExamplesBanner == "=== ALL EXAMPLES COMPLETE ==="
CharliePosts(P, U) == {p \in PostsOf(P, U, Charlie) : p.title = "Charlie introduction"}

C17_ExampleLeavesCharlie ==
  /\ []((script = "example" /\ failed /\ pc > 1) =>
          (UsersByEmail(DB, Charlie) # {} /\ CharliePosts(posts, users) # {}))
  /\ [][UsersByEmail(DB, Charlie) # {} =>
          /\ \E u \in users' : u.email = Charlie
          /\ CharliePosts(posts, users) \subseteq posts']_vars
  /\ []((script = "example" /\ UsersByEmail(atStart, Charlie) # {}) =>
          /\ pc = 1 /\ issued <= 1
          /\ users = atStart.users /\ posts = atStart.posts
          /\ phase \in {"ready", "awaiting", "rejected", "exited"}
          /\ phase \in {"rejected", "exited"} => failed
          /\ (failed /\ err # Unavailable) => err = UniqueViolation)

C17_Witness ==
  /\ script = "example" /\ phase = "exited" /\ failed /\ err = UniqueViolation
  /\ \E u \in atStart.users : u.email = Charlie /\ u.name = "Charles"
  /\ users = atStart.users /\ CharliePosts(posts, users) # {}

\* C18 (as claimed): once the cursor query has returned, the cursor page is
\* the first page again (same records, starting at the same record), and it
\* is empty when the first page is.
CursorPageReturned == script = "advanced" /\ pc > CursorPageStep

C18_CursorPageIsFirstPage ==
  CursorPageReturned => locals.cursorPage = locals.firstPage

\* C18 (amended): the cursor query is issued with the id of the first record
\* of the first page, so it ranges over the same rows: what it returns is
\* again a first page of the table (two newest posts, never the following
\* ones) of the same length, empty when the first page is empty, and equal to
\* the first page whenever the createdAt order leaves one possible first page.
FirstPageQuery == [op |-> "post.findMany", take |-> 2, cursor |-> NoCursor]
CursorPageSucceeds ==
  script = "advanced" /\ pc = CursorPageStep /\ phase = "awaiting" /\ phase' = "ready"

C18_CursorPageIsAFirstPage ==
  [][CursorPageSucceeds =>
       /\ locals'.cursorPage \in Pages(DB, FirstPageQuery)
       /\ locals.firstPage \in Pages(DB, FirstPageQuery)
       /\ Len(locals'.cursorPage) = Len(locals.firstPage)
       /\ locals.firstPage = << >> => locals'.cursorPage = << >>
       /\ Cardinality(Pages(DB, FirstPageQuery)) = 1
             => locals'.cursorPage = locals.firstPage]_vars

C18_Witness ==
  /\ CursorPageReturned /\ Cardinality(posts) >= 4
  /\ Len(locals.firstPage) = 2 /\ locals.cursorPage = locals.firstPage
  /\ \E p \in posts : p.id = locals.firstPage[1] /\ p.title = "Transaction Post"

\* every revalidation of user id that was started has stored its result
RevalidationsDone(id) ==
  /\ \E c \in Calls : bg[c].id = id /\ bg[c].stage = "done"
  /\ \A c \in Calls : bg[c].id = id => bg[c].stage = "done"

\* every read of user id made to refresh the cache has stored its result
RefreshesDone(id) ==
  /\ RevalidationsDone(id)
  /\ \A c \in Calls : calls[c].id = id => calls[c].pc \in {"idle", "done"}

Current(id) == JSONstringify(findUnique(DB, id))

\* C19 (as claimed): once all started revalidations of user id have completed
\* and no write has occurred since the earliest of them read the database,
\* the entry user:<id>, unless it has expired, holds the current row.
C19_RevalidatedEntryIsCurrent ==
  \A id \in CacheIds :
    (RevalidationsDone(id) /\ reads[id].rev = "clean" /\ cache[Key(id)].present)
      => cache[Key(id)].value = Current(id)

\* C19 (amended): stores land in any order, those of reads made after a miss
\* included; once every read of user id made to refresh the cache, in the
\* background or after a miss, has stored its result and no write has occurred
\* since the earliest of these overlapping reads, the entry user:<id>, unless
\* it has expired, holds the current row and was stored for 3600 seconds.
C19_RefreshedEntryIsCurrent ==
  \A id \in CacheIds :
    (RefreshesDone(id) /\ reads[id].all = "clean" /\ cache[Key(id)].present)
      => cache[Key(id)] = Entry(Current(id), CacheTtl)

C19_Witness ==
  \E c \in Calls : \E d \in Calls :
    /\ c # d /\ bg[c].id = 1 /\ bg[d].id = 1 /\ RefreshesDone(1)
    /\ reads[1] = [rev |-> "dirty", all |-> "clean"]
    /\ bg[c].user # bg[d].user
    /\ cache[Key(1)].present /\ cache[Key(1)].value = Current(1)

=============================================================================
